---- MODULE Spec2Model ----
(***************************************************************************)
(* State-machine model of the remote-execution test harness of            *)
(* tests/_util.py: Command, MockChannel, Session, MockRemote and the      *)
(* mock_remote decorator.                                                  *)
(*                                                                         *)
(* Python values are encoded as follows.                                   *)
(*   bytes            a sequence of byte symbols, b"" is << >>             *)
(*   str              a TLA+ string, "" is the empty str                   *)
(*   int              an integer                                           *)
(*   optional value   None is << >>, a given value v is << v >>            *)
(*   list             a sequence                                           *)
(***************************************************************************)
EXTENDS Integers, Sequences, FiniteSets, TLC

VARIABLES
    pc,         \* position of the wrapped test invocation
    declared,   \* the Session objects the decorator closed over
    sessions,   \* MockRemote.sessions
    patched,    \* whether fabric.connection.SSHClient is substituted
    SSHClient,  \* the substituted class: calls made and side_effect position
    clients,    \* per Session: its Mock client and transport (call records)
    channels,   \* per Session, per Command: its MockChannel
    args,       \* positional arguments handed to the wrapped test
    last,       \* the most recent call made by the test body and its result
    observed,   \* what the calls of the test body have returned so far
    body,       \* how the wrapped test body ended
    verified,   \* Sessions whose sanity_check ran, with each result
    outcome,    \* how the wrapper (or the constructor) ended
    sftp        \* the MockSFTP harness: its patchers and the calls on its mocks

vars == <<pc, declared, sessions, patched, SSHClient, clients, channels,
          args, last, observed, body, verified, outcome, sftp>>

----------------------------------------------------------------------------
(* Bounds of the model. *)

MaxLen == 2       \* longest byte string that is declared or sent
MaxCount == 3     \* largest size requested from recv / recv_stderr
MaxWaits == 2     \* largest declared waits
MaxCalls == 2     \* calls explored per recorded mock method
MaxPolls == 3     \* exit_status_ready polls explored per channel
MaxSessions == 2  \* most Sessions declared on one test
MaxCommands == 2  \* most Commands declared on one Session

----------------------------------------------------------------------------
(* Python values. *)

None == << >>
Some(v) == << v >>

Min(a, b) == IF a < b THEN a ELSE b
Max(a, b) == IF a > b THEN a ELSE b

\* Truth value of an optional str / bytes / int / list, as `or`, `and` and
\* `if` take it: None and the empty or zero value are false.
TruthyStr(o) == o # None /\ o[1] # ""
TruthyBytes(o) == o # None /\ Len(o[1]) > 0
TruthyInt(o) == o # None /\ o[1] # 0
TruthyList(o) == o # None /\ Len(o[1]) > 0

\* `x or ANY` as an argument matcher: << >> is mock.ANY, << x >> expects x.
ANY == << >>
OrANY(x, truthy) == IF truthy THEN << x >> ELSE ANY
Matches(m, actual) == m = ANY \/ m[1] = actual

\* buf[i:j] of Python for 0 <= i.
Slice(buf, i, j) == SubSeq(buf, i + 1, Min(j, Len(buf)))

----------------------------------------------------------------------------
(* io.BytesIO as used by MockChannel: a buffer and a position. *)

BytesIO(initial) == [buf |-> initial, pos |-> 0]

\* A read that returns the bytes and leaves the position where it was.
readNoAdvance(io, count) ==
    [data |-> Slice(io.buf, io.pos, io.pos + Max(count, 0)), io |-> io]

\* BytesIO.read(count): a negative count reads everything that is left.
\* The result is the bytes read and the stream after the read.
read(io, count) ==
    LET left == Max(Len(io.buf) - io.pos, 0)
        size == IF count < 0 \/ count > left THEN left ELSE count
    IN  [data |-> Slice(io.buf, io.pos, io.pos + size),
         io |-> [io EXCEPT !.pos = io.pos + size]]

\* A write that starts over at the beginning: the last write wins.
writeFromStart(io, data) ==
    [ret |-> Len(data), io |-> [buf |-> data, pos |-> Len(data)]]

\* BytesIO.write(data): writes at the position, which it advances.
write(io, data) ==
    [ret |-> Len(data),
     io |-> [buf |-> SubSeq(io.buf, 1, io.pos) \o data
                     \o SubSeq(io.buf, io.pos + Len(data) + 1, Len(io.buf)),
             pos |-> io.pos + Len(data)]]

getvalue(io) == io.buf

----------------------------------------------------------------------------
(* Command and Session records. *)

Command(cmd, out, err, in_, exit, waits) ==
    [cmd |-> cmd, out |-> out, err |-> err, in_ |-> in_, exit |-> exit,
     waits |-> waits]

\* Command(): every parameter at its default.
DefaultCommand == Command(None, << >>, << >>, None, 0, 0)

\* Command(**kwargs) with kwargs holding the shorthand values that are not None.
CommandFromKwargs(cmd, out, err, in_, exit, waits) ==
    Command(cmd,
            IF out # None THEN out[1] ELSE DefaultCommand.out,
            IF err # None THEN err[1] ELSE DefaultCommand.err,
            in_,
            IF exit # None THEN exit[1] ELSE DefaultCommand.exit,
            IF waits # None THEN waits[1] ELSE DefaultCommand.waits)

\* params = (cmd or out or err or exit or waits), as a truth value.
SessionParams(cmd, out, err, exit, waits) ==
    \/ TruthyStr(cmd)
    \/ TruthyBytes(out)
    \/ TruthyBytes(err)
    \/ TruthyInt(exit)
    \/ TruthyInt(waits)

\* Session.__init__: raised is the ValueError of the sanity check; otherwise
\* the Session's attributes.
Session(host, user, port, commands, cmd, out, in_, err, exit, waits) ==
    LET params == SessionParams(cmd, out, err, exit, waits)
        given == IF params
                 THEN << CommandFromKwargs(cmd, out, err, in_, exit, waits) >>
                 ELSE IF commands = None THEN << >> ELSE commands[1]
    IN  [raised |-> TruthyList(commands) /\ params,
         host |-> host, user |-> user, port |-> port,
         commands |-> IF Len(given) = 0 THEN << DefaultCommand >> ELSE given]

----------------------------------------------------------------------------
(* The fakes that Session.generate_mocks builds.  A channel is identified  *)
(* by << i, j >>: the j-th Command of the i-th Session.                    *)

\* A channel whose exit_status_ready ignores waits: repeat(True) alone.
MockChannelNoWaits(command) ==
    [stdout |-> BytesIO(command.out),
     stderr |-> BytesIO(command.err),
     _stdin |-> BytesIO(<< >>),
     recv_exit_status |-> command.exit,
     readies |-> 0,
     exit_status_ready |-> 0,
     exec_command |-> << >>]

\* MockChannel(stdout=BytesIO(command.out), stderr=BytesIO(command.err)) with
\* recv_exit_status.return_value and exit_status_ready.side_effect set.
\* readies is the state of chain(repeat(False, waits), repeat(True)): the
\* number of False values it has yet to yield.
MockChannel(command) ==
    [stdout |-> BytesIO(command.out),
     stderr |-> BytesIO(command.err),
     _stdin |-> BytesIO(<< >>),
     recv_exit_status |-> command.exit,
     readies |-> Max(command.waits, 0),
     exit_status_ready |-> 0,
     exec_command |-> << >>]

\* A transport whose open_session yields the Session's first channel every
\* time (return_value in place of side_effect).
MockClientFirstChannel(i, n) ==
    [get_transport |-> << >>,
     connect |-> << >>,
     open_session |-> << >>,
     side_effect |-> [j \in 1..n |-> << i, 1 >>],
     next |-> 1]

\* The Mock client of Session i with its transport: the call lists of
\* get_transport, connect and open_session, and open_session's side_effect
\* (the Session's channels in order, and the position of the next one).
MockClient(i, n) ==
    [get_transport |-> << >>,
     connect |-> << >>,
     open_session |-> << >>,
     side_effect |-> [j \in 1..n |-> << i, j >>],
     next |-> 1]

generate_mocks(i, session) ==
    [client |-> MockClient(i, Len(session.commands)),
     channels |-> [j \in 1..Len(session.commands) |->
                      MockChannel(session.commands[j])]]

----------------------------------------------------------------------------
(* Session.sanity_check: the first expectation that fails, or "ok". *)

\* mock.assert_called_once_with(expected): called once, and that call is the
\* expected one.  matched tells of each recorded call whether it is.
AssertCalledOnceWith(matched) == Len(matched) = 1 /\ matched[1]

\* mock.assert_called_with(expected): called, and the last call is the
\* expected one.
AssertCalledWith(matched) == Len(matched) > 0 /\ matched[Len(matched)]

\* A sanity check that takes None for a value to expect: no `or ANY`.
ConnectMatchesNoANY(session, c) ==
    /\ c.extra = << >>
    /\ c.username = session.user
    /\ c.hostname = session.host
    /\ c.port = session.port

\* connect(username=..., hostname=..., port=...) against the Session's target.
ConnectMatches(session, c) ==
    /\ c.extra = << >>
    /\ Matches(OrANY(session.user, TruthyStr(session.user)), c.username)
    /\ Matches(OrANY(session.host, TruthyStr(session.host)), c.hostname)
    /\ Matches(OrANY(session.port, TruthyInt(session.port)), c.port)

\* exec_command(command.cmd or ANY)
ExecMatches(command, c) ==
    Len(c) = 1 /\ Matches(OrANY(command.cmd, TruthyStr(command.cmd)), Some(c[1]))

\* The stdin expectation of one channel: checked only when in_ is true.
StdinMatches(command, channel) ==
    TruthyBytes(command.in_) => getvalue(channel._stdin) = command.in_[1]

\* The loop over zip(self.channels, self.commands) from pair j on.
RECURSIVE CheckChannels(_, _, _)
CheckChannels(session, chans, j) ==
    IF j > Min(Len(chans), Len(session.commands)) THEN "ok"
    ELSE LET command == session.commands[j]
             channel == chans[j]
             execs == [k \in 1..Len(channel.exec_command) |->
                          ExecMatches(command, channel.exec_command[k])]
         IN  IF ~AssertCalledWith(execs)
             THEN "exec_command"
             ELSE IF ~StdinMatches(command, channel) THEN "stdin"
             ELSE CheckChannels(session, chans, j + 1)

\* A sanity check without the final comparison of open_session's calls.
sanity_checkNoOpens(session, client, chans) ==
    LET gets == [k \in 1..Len(client.get_transport) |->
                    client.get_transport[k] = << >>]
        connects == [k \in 1..Len(client.connect) |->
                        ConnectMatches(session, client.connect[k])]
        each == CheckChannels(session, chans, 1)
    IN  IF ~AssertCalledOnceWith(gets)
        THEN "get_transport"
        ELSE IF ~AssertCalledOnceWith(connects)
        THEN "connect"
        ELSE each

sanity_check(session, client, chans) ==
    LET gets == [k \in 1..Len(client.get_transport) |->
                    client.get_transport[k] = << >>]
        connects == [k \in 1..Len(client.connect) |->
                        ConnectMatches(session, client.connect[k])]
        session_opens == [j \in 1..Min(Len(chans), Len(session.commands))
                             |-> << >>]
        each == CheckChannels(session, chans, 1)
    IN  IF ~AssertCalledOnceWith(gets)
        THEN "get_transport"
        ELSE IF ~AssertCalledOnceWith(connects)
        THEN "connect"
        ELSE IF each # "ok" THEN each
        ELSE IF client.open_session # session_opens THEN "open_session"
        ELSE "ok"

----------------------------------------------------------------------------
(* MockRemote. *)

\* Session() with nothing given.
DefaultSession ==
    Session(None, None, None, None, None, None, None, None, None, None)

\* A MockRemote that stores the sessions it is given, also when there are
\* none.
MockRemoteNoDefault(cmd, out, err, in_, exit, commands, given) ==
    IF given = None THEN << >> ELSE given[1]

\* MockRemote.__init__: the sessions it stores.
MockRemote(cmd, out, err, in_, exit, commands, given) ==
    IF TruthyList(commands)
    THEN << Session(None, None, None, commands, None, None, None, None,
                    None, None) >>
    ELSE IF ~TruthyList(given)
    THEN IF \/ TruthyStr(cmd) \/ TruthyBytes(out) \/ TruthyBytes(err)
            \/ TruthyInt(exit)
         THEN << Session(None, None, None, None, cmd, out, in_, err, exit,
                         None) >>
         ELSE << DefaultSession >>
    ELSE given[1]

\* A start() that returns the channels of one Session only.
chainOneSession(lists, i) == IF i > Len(lists) THEN << >> ELSE lists[i]

\* chain.from_iterable(x.channels for x in self.sessions), from Session i on.
RECURSIVE chain(_, _)
chain(lists, i) ==
    IF i > Len(lists) THEN << >> ELSE lists[i] \o chain(lists, i + 1)

\* A start() that generates fakes only for Sessions that have none yet: the
\* client and channels of an earlier start() are used again as they are.
startKeepsFakes(ss) ==
    [clients |-> IF Len(clients) = Len(ss) THEN clients
                 ELSE [i \in 1..Len(ss) |-> generate_mocks(i, ss[i]).client],
     channels |-> IF Len(channels) = Len(ss) THEN channels
                  ELSE [i \in 1..Len(ss) |->
                           generate_mocks(i, ss[i]).channels],
     SSHClient |-> [calls |-> 0,
                    side_effect |-> [i \in 1..Len(ss) |-> i],
                    next |-> 1],
     returned |-> chain([i \in 1..Len(ss) |->
                           [j \in 1..Len(ss[i].commands) |-> << i, j >>]], 1)]

\* MockRemote.start: the patch, the generated fakes, SSHClient.side_effect
\* and the returned channels.
start(ss) ==
    [clients |-> [i \in 1..Len(ss) |-> generate_mocks(i, ss[i]).client],
     channels |-> [i \in 1..Len(ss) |-> generate_mocks(i, ss[i]).channels],
     SSHClient |-> [calls |-> 0,
                    side_effect |-> [i \in 1..Len(ss) |-> i],
                    next |-> 1],
     returned |-> chain([i \in 1..Len(ss) |->
                           [j \in 1..Len(ss[i].commands) |-> << i, j >>]], 1)]

----------------------------------------------------------------------------
(* The wrapped test invocation: mock_remote's wrapper.                      *)
(*   "declaring" the Sessions of the decorator call are being constructed   *)
(*   "declared"  the test is decorated and not yet called                   *)
(*   "body"      start() has run; the wrapped test body is running          *)
(*   "finally"   the body has ended; stop() is about to run                 *)
(*   "sanity"    stop() has removed the patch and is checking the Sessions  *)
(*   "done"      the wrapper has returned or raised                         *)

NoCall == [op |-> "none", on |-> << >>, arg |-> << >>, ret |-> << >>,
           raised |-> FALSE]

Returned(op, on, arg, ret) ==
    [op |-> op, on |-> on, arg |-> arg, ret |-> ret, raised |-> FALSE]

Raised(op, on, arg) ==
    [op |-> op, on |-> on, arg |-> arg, ret |-> << >>, raised |-> TRUE]

\* The record of what the test body has been answered: the clients that
\* SSHClient() returned (0: it raised), per transport the channels that
\* open_session() returned (<< >>: it raised), and per channel the bytes read
\* from stdout and stderr, the bytes sent, and the answers to the polls.
NothingObserved(chans) ==
    [SSHClient |-> << >>,
     open_session |-> [i \in 1..Len(chans) |-> << >>],
     channels |-> [i \in 1..Len(chans) |-> [j \in 1..Len(chans[i]) |->
                     [recv |-> << >>, recv_stderr |-> << >>,
                      sendall |-> << >>, exit_status_ready |-> << >>]]]]

\* No MockSFTP: neither of its patchers is started and its mocks, which
\* start() creates, have no calls.
NoSFTP ==
    [expose_os |-> FALSE, os_patcher |-> FALSE, client_patcher |-> FALSE,
     stop |-> 0, abspath |-> << >>, basename |-> << >>, getcwd |-> 0,
     stat |-> 0]

\* Everything but pc and declared, before the wrapped test is called.
NotStarted ==
    /\ sessions = << >>
    /\ patched = FALSE
    /\ SSHClient = [calls |-> 0, side_effect |-> << >>, next |-> 1]
    /\ clients = << >>
    /\ channels = << >>
    /\ args = << >>
    /\ last = NoCall
    /\ observed = NothingObserved(<< >>)
    /\ body = "none"
    /\ verified = << >>
    /\ outcome = "none"
    /\ sftp = NoSFTP

\* The test is decorated with one of decls.
InitOf(decls) ==
    /\ pc = "declared"
    /\ declared \in {d \in decls : \A i \in 1..Len(d) : ~d[i].raised}
    /\ NotStarted

\* Session(...) in the argument list of mock_remote(...): a holds the
\* arguments.  A ValueError ends the run before the test is decorated.
NewSession(a) ==
    /\ pc = "declaring"
    /\ LET new == Session(a.host, a.user, a.port, a.commands, a.cmd, a.out,
                          a.in_, a.err, a.exit, a.waits)
       IN  IF new.raised
           THEN /\ last' = Raised("Session", << >>, a)
                /\ pc' = "done"
                /\ outcome' = "ValueError"
                /\ declared' = declared
           ELSE /\ last' = Returned("Session", << >>, a, new)
                /\ declared' = Append(declared, new)
                /\ UNCHANGED <<pc, outcome>>
    /\ UNCHANGED <<sessions, patched, SSHClient, clients, channels, args,
                   observed, body, verified, sftp>>

\* mock_remote(*sessions) and the decoration of the test.
mock_remote ==
    /\ pc = "declaring"
    /\ pc' = "declared"
    /\ UNCHANGED <<declared, sessions, patched, SSHClient, clients, channels,
                   args, last, observed, body, verified, outcome, sftp>>

\* wrapper, up to the call of the test: MockRemote(sessions=sessions,
\* autostart=False), then args.extend(remote.start()).  The caller's own
\* positional arguments are << 0, 1 >>, << 0, 2 >>, ...
Wrapper(own) ==
    /\ pc = "declared"
    /\ LET ss == MockRemote(None, None, None, None, None, None, Some(declared))
           st == start(ss)
       IN  /\ sessions' = ss
           /\ clients' = st.clients
           /\ channels' = st.channels
           /\ SSHClient' = st.SSHClient
           /\ args' = [k \in 1..own |-> << 0, k >>] \o st.returned
           /\ observed' = NothingObserved(st.channels)
    /\ patched' = TRUE
    /\ pc' = "body"
    /\ UNCHANGED <<declared, last, body, verified, outcome, sftp>>

\* What a call of the test body leaves alone.
BodyFrame == UNCHANGED <<pc, declared, sessions, patched, args, body,
                         verified, outcome, sftp>>

\* The test body is answered v by channel id's method m.
Observe(id, m, v) ==
    observed' = [observed EXCEPT !.channels[id[1]][id[2]][m] = @ \o v]

\* A substituted class with return_value in place of side_effect: every
\* construction returns the first Session's client and none raises.
NewSSHClientSame ==
    /\ pc = "body"
    /\ patched
    /\ SSHClient.calls < Len(sessions) + 1
    /\ SSHClient' = [SSHClient EXCEPT !.calls = @ + 1, !.next = Max(@, 2)]
    /\ last' = Returned("SSHClient", << >>, << >>, 1)
    /\ observed' = [observed EXCEPT !.SSHClient = Append(@, 1)]
    /\ UNCHANGED <<clients, channels>>
    /\ BodyFrame

\* fabric.connection.SSHClient() while patched: the next Session's client,
\* or StopIteration once side_effect is used up.
NewSSHClient ==
    /\ pc = "body"
    /\ patched
    /\ SSHClient.calls < Len(sessions) + 1
    /\ SSHClient' = [SSHClient EXCEPT
                        !.calls = @ + 1,
                        !.next = Min(@ + 1, Len(SSHClient.side_effect) + 1)]
    /\ last' = IF SSHClient.next <= Len(SSHClient.side_effect)
               THEN Returned("SSHClient", << >>, << >>,
                             SSHClient.side_effect[SSHClient.next])
               ELSE Raised("SSHClient", << >>, << >>)
    /\ observed' = [observed EXCEPT !.SSHClient =
                       Append(@, IF last'.raised THEN 0 ELSE last'.ret)]
    /\ UNCHANGED <<clients, channels>>
    /\ BodyFrame

\* The clients that the code under test holds.
Held == 1..(SSHClient.next - 1)

\* client.get_transport()
get_transport(i) ==
    /\ pc = "body"
    /\ i \in Held
    /\ Len(clients[i].get_transport) < MaxCalls
    /\ clients' = [clients EXCEPT ![i].get_transport = Append(@, << >>)]
    /\ last' = Returned("get_transport", << i >>, << >>, << i >>)
    /\ UNCHANGED <<SSHClient, channels, observed>>
    /\ BodyFrame

\* client.connect(...): c is the call as recorded.
connect(i, c) ==
    /\ pc = "body"
    /\ i \in Held
    /\ Len(clients[i].connect) < MaxCalls
    /\ clients' = [clients EXCEPT ![i].connect = Append(@, c)]
    /\ last' = Returned("connect", << i >>, c, << >>)
    /\ UNCHANGED <<SSHClient, channels, observed>>
    /\ BodyFrame

\* transport.open_session(): the next channel of side_effect, or
\* StopIteration once they are used up.  The call is recorded either way.
open_session(i) ==
    /\ pc = "body"
    /\ i \in Held
    /\ Len(clients[i].get_transport) > 0
    /\ Len(clients[i].open_session) < Len(clients[i].side_effect) + 1
    /\ clients' = [clients EXCEPT
                      ![i].open_session = Append(@, << >>),
                      ![i].next = Min(@ + 1, Len(clients[i].side_effect) + 1)]
    /\ last' = IF clients[i].next <= Len(clients[i].side_effect)
               THEN Returned("open_session", << i >>, << >>,
                             clients[i].side_effect[clients[i].next])
               ELSE Raised("open_session", << i >>, << >>)
    /\ observed' = [observed EXCEPT !.open_session[i] = Append(@, last'.ret)]
    /\ UNCHANGED <<SSHClient, channels>>
    /\ BodyFrame

\* The channels there are.
Channels ==
    UNION {{<< i, j >> : j \in 1..Len(channels[i])} : i \in 1..Len(channels)}

\* channel.exec_command(text)
exec_command(id, text) ==
    /\ pc = "body"
    /\ id \in Channels
    /\ Len(channels[id[1]][id[2]].exec_command) < MaxCalls
    /\ channels' = [channels EXCEPT
                       ![id[1]][id[2]].exec_command = Append(@, << text >>)]
    /\ last' = Returned("exec_command", id, << text >>, << >>)
    /\ UNCHANGED <<SSHClient, clients, observed>>
    /\ BodyFrame

\* A recv on streams that share one cursor: reading from one channel moves
\* the stdout position of every channel.
recvSharedCursor(id, count) ==
    /\ pc = "body"
    /\ id \in Channels
    /\ LET r == read(channels[id[1]][id[2]].stdout, count)
       IN  /\ channels' = [i \in 1..Len(channels) |->
                             [j \in 1..Len(channels[i]) |->
                                 [channels[i][j] EXCEPT
                                     !.stdout.pos = r.io.pos]]]
           /\ last' = Returned("recv", id, count, r.data)
           /\ Observe(id, "recv", r.data)
    /\ UNCHANGED <<SSHClient, clients>>
    /\ BodyFrame

\* MockChannel.recv(count)
recv(id, count) ==
    /\ pc = "body"
    /\ id \in Channels
    /\ LET r == read(channels[id[1]][id[2]].stdout, count)
       IN  /\ channels' = [channels EXCEPT ![id[1]][id[2]].stdout = r.io]
           /\ last' = Returned("recv", id, count, r.data)
           /\ Observe(id, "recv", r.data)
    /\ UNCHANGED <<SSHClient, clients>>
    /\ BodyFrame

\* MockChannel.recv_stderr(count)
recv_stderr(id, count) ==
    /\ pc = "body"
    /\ id \in Channels
    /\ LET r == read(channels[id[1]][id[2]].stderr, count)
       IN  /\ channels' = [channels EXCEPT ![id[1]][id[2]].stderr = r.io]
           /\ last' = Returned("recv_stderr", id, count, r.data)
           /\ Observe(id, "recv_stderr", r.data)
    /\ UNCHANGED <<SSHClient, clients>>
    /\ BodyFrame

\* MockChannel.sendall(data)
sendall(id, data) ==
    /\ pc = "body"
    /\ id \in Channels
    /\ Len(getvalue(channels[id[1]][id[2]]._stdin)) + Len(data) <= MaxLen
    /\ LET w == write(channels[id[1]][id[2]]._stdin, data)
       IN  /\ channels' = [channels EXCEPT ![id[1]][id[2]]._stdin = w.io]
           /\ last' = Returned("sendall", id, data, w.ret)
           /\ Observe(id, "sendall", data)
    /\ UNCHANGED <<SSHClient, clients>>
    /\ BodyFrame

\* channel.exit_status_ready(): the next value of readies.
exit_status_ready(id) ==
    /\ pc = "body"
    /\ id \in Channels
    /\ channels[id[1]][id[2]].exit_status_ready < MaxPolls
    /\ channels' = [channels EXCEPT
                       ![id[1]][id[2]].exit_status_ready = @ + 1,
                       ![id[1]][id[2]].readies = Max(@ - 1, 0)]
    /\ last' = Returned("exit_status_ready", id, << >>,
                        channels[id[1]][id[2]].readies = 0)
    /\ Observe(id, "exit_status_ready", << last'.ret >>)
    /\ UNCHANGED <<SSHClient, clients>>
    /\ BodyFrame

\* channel.recv_exit_status(): its return_value.
recv_exit_status(id) ==
    /\ pc = "body"
    /\ id \in Channels
    /\ last' = Returned("recv_exit_status", id, << >>,
                        channels[id[1]][id[2]].recv_exit_status)
    /\ UNCHANGED <<SSHClient, clients, channels, observed>>
    /\ BodyFrame

\* f(*args, **kwargs) returns.
BodyReturns ==
    /\ pc = "body"
    /\ body' = "returned"
    /\ pc' = "finally"
    /\ UNCHANGED <<declared, sessions, patched, SSHClient, clients, channels,
                   args, last, observed, verified, outcome, sftp>>

\* A wrapper without try/finally: an error of the body leaves it at once.
BodyRaisesNoFinally ==
    /\ pc = "body"
    /\ body' = "raised"
    /\ pc' = "done"
    /\ outcome' = "body_error"
    /\ UNCHANGED <<declared, sessions, patched, SSHClient, clients, channels,
                   args, last, observed, verified, sftp>>

\* f(*args, **kwargs) raises.
BodyRaises ==
    /\ pc = "body"
    /\ body' = "raised"
    /\ pc' = "finally"
    /\ UNCHANGED <<declared, sessions, patched, SSHClient, clients, channels,
                   args, last, observed, verified, outcome, sftp>>

\* A stop() that goes on to the sanity checks without self.patcher.stop().
stopKeepsPatch ==
    /\ pc = "finally"
    /\ pc' = "sanity"
    /\ UNCHANGED <<declared, sessions, patched, SSHClient, clients, channels,
                   args, last, observed, body, verified, outcome, sftp>>

\* MockRemote.stop, first statement: self.patcher.stop().
stop ==
    /\ pc = "finally"
    /\ patched' = FALSE
    /\ pc' = "sanity"
    /\ UNCHANGED <<declared, sessions, SSHClient, clients, channels, args,
                   last, observed, body, verified, outcome, sftp>>

\* A wrapper that returns normally whenever stop() has returned: an error of
\* the body is swallowed.
AfterStopSwallows == "returned"

\* How the wrapper ends once stop() has returned: the body's own result.
AfterStop == IF body = "raised" THEN "body_error" ELSE "returned"

\* A stop() that checks every Session and raises the first failure at the
\* end.
stop_sanity_checkAll ==
    /\ pc = "sanity"
    /\ LET i == Len(verified) + 1
           result == sanity_check(sessions[i], clients[i], channels[i])
           results == Append(verified, result)
       IN  /\ i <= Len(sessions)
           /\ verified' = results
           /\ IF i < Len(sessions)
              THEN pc' = "sanity" /\ outcome' = outcome
              ELSE /\ pc' = "done"
                   /\ outcome' = IF \E k \in 1..i : results[k] # "ok"
                                 THEN "AssertionError" ELSE AfterStop
    /\ UNCHANGED <<declared, sessions, patched, SSHClient, clients, channels,
                   args, last, observed, body, sftp>>

\* MockRemote.stop, the loop: the next Session's sanity_check.  A failure
\* leaves stop() and the wrapper at once; after the last Session the wrapper
\* ends as the body did.
stop_sanity_check ==
    /\ pc = "sanity"
    /\ LET i == Len(verified) + 1
           result == sanity_check(sessions[i], clients[i], channels[i])
       IN  /\ i <= Len(sessions)
           /\ verified' = Append(verified, result)
           /\ IF result # "ok"
              THEN pc' = "done" /\ outcome' = "AssertionError"
              ELSE IF i = Len(sessions)
              THEN pc' = "done" /\ outcome' = AfterStop
              ELSE pc' = "sanity" /\ outcome' = outcome
    /\ UNCHANGED <<declared, sessions, patched, SSHClient, clients, channels,
                   args, last, observed, body, sftp>>

----------------------------------------------------------------------------
(* Values the specifications draw from. *)

\* The byte strings of stdout (a, ab, ...) and of stderr (x, xy, ...).
OutBytes(n) == SubSeq(<< "a", "b", "c", "d" >>, 1, n)
ErrBytes(n) == SubSeq(<< "x", "y", "z", "w" >>, 1, n)

\* Session(commands=[...]) with no target and nothing else given.
SessionOf(commands) ==
    Session(None, None, None, Some(commands), None, None, None, None, None,
            None)

\* The Command of channel id, and the channel.
CommandOf(id) == sessions[id[1]].commands[id[2]]
ChannelOf(id) == channels[id[1]][id[2]]
ObservedOf(id) == observed.channels[id[1]][id[2]]

----------------------------------------------------------------------------
(* SpecChannel: one Session of one Command; the test body drives the        *)
(* injected channel: reads, writes and polls in any interleaving.           *)

ChannelCommands ==
    {Command(None, OutBytes(n), ErrBytes(MaxLen - n), None, n, w) :
        n \in 0..MaxLen, w \in 0..MaxWaits}

ChannelDecls == {<< SessionOf(<< c >>) >> : c \in ChannelCommands}

SentData == {<< >>, << "a" >>, << "b" >>}

InitChannel == InitOf(ChannelDecls)

NextChannel ==
    \/ Wrapper(1)
    \/ \E id \in Channels, count \in 0..MaxCount : recv(id, count)
    \/ \E id \in Channels, count \in 0..MaxCount : recv_stderr(id, count)
    \/ \E id \in Channels, data \in SentData : sendall(id, data)
    \/ \E id \in Channels : exit_status_ready(id)
    \/ \E id \in Channels : recv_exit_status(id)
    \/ BodyReturns
    \/ BodyRaises
    \/ stop
    \/ stop_sanity_check

SpecChannel == InitChannel /\ [][NextChannel]_vars

----------------------------------------------------------------------------
(* C2: on every channel, the answers of exit_status_ready so far are False  *)
(* for exactly the first waits calls and True for every later call,         *)
(* whatever reads, writes and recv_exit_status calls come in between, and   *)
(* recv_exit_status returns the Command's exit code whenever it is called.  *)
C2_ExitStatusReady ==
    \A id \in Channels :
        /\ Len(ObservedOf(id).exit_status_ready)
              = ChannelOf(id).exit_status_ready
        /\ \A k \in 1..Len(ObservedOf(id).exit_status_ready) :
              ObservedOf(id).exit_status_ready[k] = (k > CommandOf(id).waits)
        /\ (last.op = "recv_exit_status" /\ last.on = id)
              => last.ret = CommandOf(id).exit

\* A channel with waits = 2 has answered False, False, True between reads and
\* writes, and is then asked for its exit status.
C2_Witness ==
    /\ pc = "body"
    /\ last.op = "recv_exit_status"
    /\ CommandOf(last.on).waits = 2
    /\ CommandOf(last.on).exit # 0
    /\ ObservedOf(last.on).exit_status_ready = << FALSE, FALSE, TRUE >>
    /\ ObservedOf(last.on).recv # << >>
    /\ ObservedOf(last.on).sendall # << >>

(* C3: on every channel the bytes read so far from stdout are the first     *)
(* bytes of the Command's out, as many as the cursor has advanced, and a    *)
(* recv(count) returns min(count, unread) of them; the same for stderr.     *)
C3_RecvBounded ==
    \A id \in Channels :
        /\ ChannelOf(id).stdout.pos <= Len(CommandOf(id).out)
        /\ ObservedOf(id).recv
              = SubSeq(CommandOf(id).out, 1, ChannelOf(id).stdout.pos)
        /\ (last.op = "recv" /\ last.on = id) =>
              Len(last.ret) = Min(last.arg, Len(CommandOf(id).out)
                                 - (ChannelOf(id).stdout.pos - Len(last.ret)))
        /\ ChannelOf(id).stderr.pos <= Len(CommandOf(id).err)
        /\ ObservedOf(id).recv_stderr
              = SubSeq(CommandOf(id).err, 1, ChannelOf(id).stderr.pos)
        /\ (last.op = "recv_stderr" /\ last.on = id) =>
              Len(last.ret) = Min(last.arg, Len(CommandOf(id).err)
                                 - (ChannelOf(id).stderr.pos - Len(last.ret)))

\* A read asks for more than is left and gets the one byte that is left.
C3_Witness ==
    /\ last.op = "recv"
    /\ last.arg = MaxCount
    /\ last.ret = << "b" >>
    /\ ObservedOf(last.on).recv = << "a", "b" >>
    /\ ChannelOf(last.on).stdout.pos = Len(CommandOf(last.on).out)

(* C4: on every channel the recorded stdin is the concatenation of the data *)
(* of the sendall calls in call order, and sendall returns the length of    *)
(* its data.                                                                *)
C4_SendallAccumulates ==
    \A id \in Channels :
        /\ getvalue(ChannelOf(id)._stdin) = ObservedOf(id).sendall
        /\ (last.op = "sendall" /\ last.on = id) => last.ret = Len(last.arg)

\* b"a" then b"b" have been sent.
C4_Witness ==
    /\ last.op = "sendall"
    /\ last.arg = << "b" >>
    /\ getvalue(ChannelOf(last.on)._stdin) = << "a", "b" >>

----------------------------------------------------------------------------
(* SpecOpen: one to MaxSessions Sessions of one to MaxCommands Commands     *)
(* each; the test body constructs clients, gets the transport of each and   *)
(* opens channels, in whatever order it likes and more often than there are *)
(* Sessions and Commands.                                                   *)

\* The k-th Command of a Session: told apart by its text, out and exit.
NthCommand(k) ==
    Command(Some(<< "whoami", "uname", "ls", "id" >>[k]), OutBytes(k), << >>,
            None, k, 0)

\* The i-th Session, of n Commands: told apart by its host.
NthSession(i, n) ==
    Session(Some(<< "h1", "h2", "h3", "h4" >>[i]), None, None,
            Some([k \in 1..n |-> NthCommand(k)]), None, None, None, None,
            None, None)

OpenDecls ==
    UNION {{[i \in 1..m |-> NthSession(i, size[i])] :
               size \in [1..m -> 1..MaxCommands]} : m \in 1..MaxSessions}

\* The wrapped test is a function (no argument of its own) or a method (self).
OwnArgs == {0, 1}

InitOpen == InitOf(OpenDecls)

NextOpen ==
    \/ \E own \in OwnArgs : Wrapper(own)
    \/ NewSSHClient
    \/ \E i \in Held :
          Len(clients[i].get_transport) = 0 /\ get_transport(i)
    \/ \E i \in Held : open_session(i)
    \/ BodyReturns
    \/ BodyRaises
    \/ stop
    \/ stop_sanity_check

SpecOpen == InitOpen /\ [][NextOpen]_vars

(* C1: on every Session's transport the k-th open_session call returned the *)
(* channel built for the k-th Command, for k up to the number of Commands,  *)
(* so none twice and none of another Session, and every call after those    *)
(* raised instead of returning a channel.                                    *)
C1_OpenSessionInOrder ==
    \A i \in 1..Len(clients) :
        /\ Len(observed.open_session[i]) = Len(clients[i].open_session)
        /\ \A k \in 1..Len(observed.open_session[i]) :
              IF k <= Len(sessions[i].commands)
              THEN /\ observed.open_session[i][k] = << i, k >>
                   /\ channels[i][k].stdout.buf = sessions[i].commands[k].out
                   /\ channels[i][k].recv_exit_status
                         = sessions[i].commands[k].exit
              ELSE observed.open_session[i][k] = << >>

\* The second Session's transport has yielded both its channels and then
\* raised on the third open.
C1_Witness ==
    /\ Len(clients) = 2
    /\ observed.open_session[2] = << << 2, 1 >>, << 2, 2 >>, << >> >>
    /\ last.op = "open_session" /\ last.raised

\* The place of channel id among the channels of all Sessions in declared
\* order.
PlaceOf(id) ==
    Cardinality({other \in Channels :
                    \/ other[1] < id[1]
                    \/ other[1] = id[1] /\ other[2] <= id[2]})

\* The number of the caller's own positional arguments.
OwnCount == Cardinality({k \in 1..Len(args) : args[k][1] = 0})

(* C9: the wrapped test is called with the caller's own positional          *)
(* arguments followed by one channel per Command, the channels of the first *)
(* Session in command order, then those of the second, ...; each is the     *)
(* channel that its Session's transport yields for that Command.            *)
C9_InjectedChannels ==
    pc # "declared" =>
        /\ \A k \in 1..OwnCount : args[k] = << 0, k >>
        /\ Len(args) = OwnCount + Cardinality(Channels)
        /\ \A id \in Channels :
              args[OwnCount + PlaceOf(id)] = clients[id[1]].side_effect[id[2]]
        /\ \A id \in Channels : clients[id[1]].side_effect[id[2]] = id

\* A method with two Sessions of two Commands: its last argument is the
\* second channel of the second Session, which that transport has yielded.
C9_Witness ==
    /\ Len(args) = 5
    /\ args[1] = << 0, 1 >>
    /\ args[5] = << 2, 2 >>
    /\ last.op = "open_session" /\ last.ret = << 2, 2 >>

----------------------------------------------------------------------------
(* Spec: the test body does what the Sessions declare, or a part of it: it  *)
(* constructs a client per Session, calls get_transport and connect once on *)
(* each with the declared target, opens a channel per Command, calls        *)
(* exec_command on each opened channel with the declared text and writes    *)
(* the declared stdin, polling and reading the channels in between.  It may *)
(* return or raise at any point.                                            *)

\* Session(host=..., user=..., port=..., cmd=..., in_=..., waits=...): the
\* shorthand form.
ShorthandSession ==
    Session(Some("h1"), Some("u1"), Some(22), None, Some("ls"), None,
            Some(<< "a", "b" >>), None, None, Some(1))

RunDecls ==
    { \* one Session of two Commands, the second with waits = 2
      << SessionOf(<< Command(Some("whoami"), << "a" >>, << >>, None, 0, 0),
                      Command(Some("uname"), << >>, << >>, None, 0, 2) >>) >>,
      \* two Sessions of one Command: a shorthand one, then Session()
      << ShorthandSession, DefaultSession >>,
      \* a target and a Command declared with empty and zero values
      << Session(Some(""), None, Some(0),
                 Some(<< Command(Some(""), << >>, << "x" >>, Some(<< >>), 1,
                                 0) >>),
                 None, None, None, None, None, None) >> }

\* The values a call may pass where the Session declares nothing.
AnyUser == {Some("u9")}
AnyHost == {Some("h9"), None}
AnyPort == {Some(2222)}
AnyText == {"id"}

\* The connect calls that pass the declared target.
DeclaredConnects(session) ==
    {[username |-> u, hostname |-> h, port |-> p, extra |-> << >>] :
        u \in IF session.user # None THEN {session.user} ELSE AnyUser,
        h \in IF session.host # None THEN {session.host} ELSE AnyHost,
        p \in IF session.port # None THEN {session.port} ELSE AnyPort}

\* The texts that exec_command may pass for a Command.
DeclaredTexts(command) ==
    IF command.cmd # None THEN {command.cmd[1]} ELSE AnyText

\* The next pieces of the declared stdin that are yet to be written.
DeclaredData(command, channel) ==
    IF command.in_ = None THEN { }
    ELSE {SubSeq(command.in_[1], Len(getvalue(channel._stdin)) + 1, m) :
             m \in (Len(getvalue(channel._stdin)) + 1)..Len(command.in_[1])}

\* The channels that open_session has returned.
Opened ==
    {id \in Channels :
        \E k \in 1..Len(observed.open_session[id[1]]) :
            observed.open_session[id[1]][k] = id}

Init == InitOf(RunDecls)

Next ==
    \/ \E own \in OwnArgs : Wrapper(own)
    \/ SSHClient.calls < Len(sessions) /\ NewSSHClient
    \/ \E i \in Held :
          Len(clients[i].get_transport) = 0 /\ get_transport(i)
    \/ \E i \in Held : \E c \in DeclaredConnects(sessions[i]) :
          Len(clients[i].connect) = 0 /\ connect(i, c)
    \/ \E i \in Held :
          /\ Len(clients[i].open_session) < Len(sessions[i].commands)
          /\ open_session(i)
    \/ \E id \in Opened : \E text \in DeclaredTexts(CommandOf(id)) :
          Len(ChannelOf(id).exec_command) = 0 /\ exec_command(id, text)
    \/ \E id \in Opened : \E data \in DeclaredData(CommandOf(id), ChannelOf(id)) :
          sendall(id, data)
    \/ \E id \in Opened : exit_status_ready(id)
    \/ \E id \in Opened : recv(id, MaxCount)
    \/ \E id \in Opened : recv_stderr(id, MaxCount)
    \/ \E id \in Opened : recv_exit_status(id)
    \/ BodyReturns
    \/ BodyRaises
    \/ stop
    \/ stop_sanity_check

Spec == Init /\ [][Next]_vars

\* The last Session that stop() has checked.
LastVerified == verified[Len(verified)]

(* C5 as stated: once the wrapper has ended, however the body ended, the    *)
(* substitution is removed and the sanity_check of every Session has run.   *)
C5_Original ==
    pc = "done" =>
        /\ ~patched
        /\ Len(verified) = Len(sessions)

(* C5 as amended: once the wrapper has ended, however the body ended, the   *)
(* substitution is removed and stop() has run the sanity_check of the       *)
(* Sessions in declared order up to and including the first that fails: of  *)
(* every Session when none before the last fails.  The substitution is      *)
(* removed before any Session is checked.                                   *)
C5_TeardownAlways ==
    /\ pc \in {"sanity", "done"} => ~patched /\ body \in {"returned", "raised"}
    /\ pc = "done" =>
          /\ Len(verified) \in 1..Len(sessions)
          /\ \A k \in 1..(Len(verified) - 1) : verified[k] = "ok"
          /\ Len(verified) < Len(sessions) => LastVerified # "ok"

\* The body raised after doing all that two Sessions declare: stop() has
\* removed the substitution and checked both Sessions.
C5_Witness ==
    /\ pc = "done"
    /\ body = "raised"
    /\ ~patched
    /\ Len(sessions) = 2
    /\ verified = << "ok", "ok" >>

\* The test body has done all that the Sessions declare.
Complete ==
    /\ SSHClient.calls = Len(sessions)
    /\ \A i \in 1..Len(sessions) :
          /\ Len(clients[i].get_transport) = 1
          /\ Len(clients[i].connect) = 1
          /\ Len(clients[i].open_session) = Len(sessions[i].commands)
    /\ \A id \in Channels :
          /\ Len(ChannelOf(id).exec_command) = 1
          /\ CommandOf(id).in_ # None =>
                getvalue(ChannelOf(id)._stdin) = CommandOf(id).in_[1]

(* C8: when the test body has done all that the Sessions declare, stop()    *)
(* passes the verification of every Session, so the wrapper ends as the     *)
(* body did; and only a channel whose Command has waits > 0 ever answers    *)
(* exit_status_ready() with False.                                          *)
C8_NoFalseFailures ==
    /\ (pc = "done" /\ Complete) =>
          /\ verified = [i \in 1..Len(sessions) |-> "ok"]
          /\ outcome = AfterStop
    /\ \A id \in Channels :
          (\E k \in 1..Len(ObservedOf(id).exit_status_ready) :
              ~ObservedOf(id).exit_status_ready[k])
          => CommandOf(id).waits > 0

\* The Session of two Commands: the second channel answered False, False,
\* True, the first True at once, everything declared was done and the
\* wrapper returned.
C8_Witness ==
    /\ pc = "done"
    /\ Complete
    /\ Len(sessions) = 1
    /\ Len(sessions[1].commands) = 2
    /\ observed.channels[1][1].exit_status_ready = << TRUE >>
    /\ observed.channels[1][2].exit_status_ready = << FALSE, FALSE, TRUE >>
    /\ observed.channels[1][1].recv = << "a" >>
    /\ verified = << "ok" >>
    /\ outcome = "returned"

----------------------------------------------------------------------------
(* SpecConnect: one Session of one Command and a declared target; the test  *)
(* body does what the Session declares, but calls connect as often as it    *)
(* likes, with the declared target or another.                              *)

TargetSession(host, user, port) ==
    Session(host, user, port, None, None, None, None, None, None, None)

ConnectDecls ==
    {<< TargetSession(None, None, None) >>,
     << TargetSession(Some("h1"), Some("u1"), Some(22)) >>,
     << TargetSession(Some("h1"), None, None) >>,
     << TargetSession(Some(""), None, None) >>,
     << TargetSession(None, Some(""), None) >>,
     << TargetSession(None, None, Some(0)) >>}

ConnectCall(user, host, port, extra) ==
    [username |-> user, hostname |-> host, port |-> port, extra |-> extra]

ConnectCalls ==
    {ConnectCall(Some("u1"), Some("h1"), Some(22), << >>),
     ConnectCall(Some("u9"), Some("h1"), Some(22), << >>),
     ConnectCall(Some("u1"), Some("h9"), Some(22), << >>),
     ConnectCall(Some("u1"), Some("h1"), Some(2222), << >>),
     ConnectCall(Some("u1"), Some("h1"), Some(22), << "timeout" >>)}

InitConnect == InitOf(ConnectDecls)

NextConnect ==
    \/ Wrapper(1)
    \/ SSHClient.calls < Len(sessions) /\ NewSSHClient
    \/ \E i \in Held :
          Len(clients[i].get_transport) = 0 /\ get_transport(i)
    \/ \E i \in Held : \E c \in ConnectCalls : connect(i, c)
    \/ \E i \in Held :
          /\ Len(clients[i].open_session) < Len(sessions[i].commands)
          /\ open_session(i)
    \/ \E id \in Opened : \E text \in DeclaredTexts(CommandOf(id)) :
          Len(ChannelOf(id).exec_command) = 0 /\ exec_command(id, text)
    \/ BodyReturns
    \/ BodyRaises
    \/ stop
    \/ stop_sanity_check

SpecConnect == InitConnect /\ [][NextConnect]_vars

(* C6: a Session passes verification only if connect was called exactly     *)
(* once on its client and that call passed, for each of host, user and port *)
(* that the Session declares (is not None), the declared value.             *)
C6_ConnectTarget ==
    \A i \in 1..Len(verified) :
        verified[i] = "ok" =>
            /\ Len(clients[i].connect) = 1
            /\ sessions[i].host # None
                  => clients[i].connect[1].hostname = sessions[i].host
            /\ sessions[i].user # None
                  => clients[i].connect[1].username = sessions[i].user
            /\ sessions[i].port # None
                  => clients[i].connect[1].port = sessions[i].port

----------------------------------------------------------------------------
(* SpecSession: one Session is constructed in the decorator call from any   *)
(* combination of commands and shorthand fields; if that succeeds the test  *)
(* is decorated and run.                                                    *)

SessionArgs ==
    [host : {None}, user : {None}, port : {None},
     commands : {None, Some(<< >>), Some(<< DefaultCommand >>)},
     cmd : {None, Some(""), Some("ls")},
     out : {None, Some(<< >>), Some(<< "a" >>)},
     in_ : {None, Some(<< >>), Some(<< "a" >>)},
     err : {None, Some(<< "x" >>)},
     exit : {None, Some(0), Some(1)},
     waits : {None, Some(0), Some(1)}]

\* Whether a shorthand single-command field is given.
ShorthandGiven(a) ==
    \/ a.cmd # None \/ a.out # None \/ a.err # None
    \/ a.in_ # None \/ a.exit # None \/ a.waits # None

InitSession ==
    /\ pc = "declaring"
    /\ declared = << >>
    /\ NotStarted

NextSession ==
    \/ \E a \in SessionArgs : Len(declared) = 0 /\ NewSession(a)
    \/ Len(declared) > 0 /\ mock_remote
    \/ Wrapper(0)
    \/ BodyReturns
    \/ BodyRaises
    \/ stop
    \/ stop_sanity_check

SpecSession == InitSession /\ [][NextSession]_vars

(* C7: constructing a Session with a non-empty commands list together with  *)
(* any shorthand field, whatever its value, raises; no Session is produced  *)
(* from both forms.                                                         *)
C7_BothFormsRaise ==
    (/\ last.op = "Session"
     /\ TruthyList(last.arg.commands)
     /\ ShorthandGiven(last.arg))
    => last.raised /\ declared = << >> /\ outcome = "ValueError"

(* C15: a Session constructed from shorthand fields and no commands list    *)
(* holds exactly one Command, whose every field is the shorthand value      *)
(* given for it, or the Command default where none is given (is None),      *)
(* whichever fields are given and whatever their values.                    *)
C15_ShorthandCommand ==
    (/\ last.op = "Session"
     /\ last.arg.commands = None
     /\ ~last.raised)
    => last.ret.commands
          = << Command(last.arg.cmd,
                       IF last.arg.out # None THEN last.arg.out[1] ELSE << >>,
                       IF last.arg.err # None THEN last.arg.err[1] ELSE << >>,
                       last.arg.in_,
                       IF last.arg.exit # None THEN last.arg.exit[1] ELSE 0,
                       IF last.arg.waits # None THEN last.arg.waits[1] ELSE 0)
             >>

----------------------------------------------------------------------------
(* SpecStdin: one Session of one Command with or without an expected stdin; *)
(* the test body does what the Session declares, but sends what it likes.   *)

StdinDecls ==
    {<< SessionOf(<< Command(None, << >>, << >>, in_, 0, 0) >>) >> :
        in_ \in {None, Some(<< >>), Some(<< "a" >>), Some(<< "a", "b" >>)}}

InitStdin == InitOf(StdinDecls)

NextStdin ==
    \/ Wrapper(1)
    \/ SSHClient.calls < Len(sessions) /\ NewSSHClient
    \/ \E i \in Held :
          Len(clients[i].get_transport) = 0 /\ get_transport(i)
    \/ \E i \in Held : \E c \in DeclaredConnects(sessions[i]) :
          Len(clients[i].connect) = 0 /\ connect(i, c)
    \/ \E i \in Held :
          /\ Len(clients[i].open_session) < Len(sessions[i].commands)
          /\ open_session(i)
    \/ \E id \in Opened : \E text \in DeclaredTexts(CommandOf(id)) :
          Len(ChannelOf(id).exec_command) = 0 /\ exec_command(id, text)
    \/ \E id \in Channels : \E data \in SentData : sendall(id, data)
    \/ BodyReturns
    \/ BodyRaises
    \/ stop
    \/ stop_sanity_check

SpecStdin == InitStdin /\ [][NextStdin]_vars

(* C10: a Session passes verification only if, for every Command whose in_  *)
(* is set (is not None, the empty byte string included), the bytes recorded *)
(* by its channel through sendall equal in_.                                *)
C10_StdinExpected ==
    \A i \in 1..Len(verified) :
        verified[i] = "ok" =>
            \A j \in 1..Len(sessions[i].commands) :
                sessions[i].commands[j].in_ # None =>
                    getvalue(channels[i][j]._stdin)
                       = sessions[i].commands[j].in_[1]

----------------------------------------------------------------------------
(* SpecVerify: one Session of one or two Commands; the test body constructs *)
(* the client, calls get_transport and connect as declared, and then opens  *)
(* channels and calls exec_command as it likes: on channels it has opened   *)
(* or on the injected ones directly, with the declared text or another,     *)
(* more than once, and opening fewer or more channels than declared.        *)

\* transport.open_session(arg): a Mock takes whatever arguments it is given,
\* records them and yields the next value of side_effect all the same.
open_session_with(i, arg) ==
    /\ pc = "body"
    /\ i \in Held
    /\ Len(clients[i].get_transport) > 0
    /\ Len(clients[i].open_session) < Len(clients[i].side_effect) + 1
    /\ clients' = [clients EXCEPT
                      ![i].open_session = Append(@, << arg >>),
                      ![i].next = Min(@ + 1, Len(clients[i].side_effect) + 1)]
    /\ last' = IF clients[i].next <= Len(clients[i].side_effect)
               THEN Returned("open_session", << i >>, << arg >>,
                             clients[i].side_effect[clients[i].next])
               ELSE Raised("open_session", << i >>, << arg >>)
    /\ observed' = [observed EXCEPT !.open_session[i] = Append(@, last'.ret)]
    /\ UNCHANGED <<SSHClient, channels>>
    /\ BodyFrame

VerifyDecls ==
    {<< SessionOf(<< Command(cmd, << >>, << >>, None, 0, 0) >>) >> :
        cmd \in {None, Some("ls"), Some("")}}
    \cup {<< SessionOf(<< NthCommand(1), NthCommand(2) >>) >>}

InitVerify == InitOf(VerifyDecls)

NextVerify ==
    \/ Wrapper(1)
    \/ SSHClient.calls < Len(sessions) /\ NewSSHClient
    \/ \E i \in Held :
          Len(clients[i].get_transport) = 0 /\ get_transport(i)
    \/ \E i \in Held : \E c \in DeclaredConnects(sessions[i]) :
          Len(clients[i].connect) = 0 /\ connect(i, c)
    \/ \E i \in Held : open_session(i)
    \/ \E i \in Held : open_session_with(i, "window")
    \/ \E id \in Channels :
          \E text \in DeclaredTexts(CommandOf(id)) \cup AnyText :
              exec_command(id, text)
    \/ BodyReturns
    \/ BodyRaises
    \/ stop
    \/ stop_sanity_check

SpecVerify == InitVerify /\ [][NextVerify]_vars

(* C11: a Session passes verification only if, for every Command,           *)
(* exec_command was called on its channel at least once and, when the       *)
(* Command declares a text (cmd is not None), no exec_command call on that  *)
(* channel carried another text.                                            *)
C11_ExecExpected ==
    \A i \in 1..Len(verified) :
        verified[i] = "ok" =>
            \A j \in 1..Len(sessions[i].commands) :
                /\ Len(channels[i][j].exec_command) > 0
                /\ sessions[i].commands[j].cmd # None =>
                      \A k \in 1..Len(channels[i][j].exec_command) :
                          channels[i][j].exec_command[k]
                             = << sessions[i].commands[j].cmd[1] >>

(* C12: a Session of n Commands passes verification only if open_session    *)
(* was called on its transport exactly n times, each time without           *)
(* arguments; with fewer or more calls, or a call with an argument, a       *)
(* Session that meets every other expectation fails on open_session.        *)
C12_OpenCount ==
    \A i \in 1..Len(verified) :
        /\ verified[i] = "ok" =>
              clients[i].open_session
                 = [k \in 1..Len(sessions[i].commands) |-> << >>]
        /\ (/\ sanity_checkNoOpens(sessions[i], clients[i], channels[i]) = "ok"
            /\ clients[i].open_session
                  # [k \in 1..Len(sessions[i].commands) |-> << >>])
           => verified[i] = "open_session"

\* Two Commands: the body opened both channels, executed the declared texts,
\* and opened a third time, which raised; verification fails on the opens.
C12_Witness ==
    /\ pc = "done"
    /\ Len(sessions[1].commands) = 2
    /\ observed.open_session[1] = << << 1, 1 >>, << 1, 2 >>, << >> >>
    /\ clients[1].open_session = << << >>, << >>, << >> >>
    /\ channels[1][1].exec_command = << << "whoami" >> >>
    /\ channels[1][2].exec_command = << << "uname" >> >>
    /\ verified = << "open_session" >>
    /\ outcome = "AssertionError"

----------------------------------------------------------------------------
(* SpecClient: two or three Sessions of one Command each, told apart by     *)
(* their host; the test body constructs clients, as many as declared, fewer *)
(* or one more, and uses each as declared or connects it to another host.   *)

\* Session(host=...) for the i-th connection.
HostSession(i) ==
    TargetSession(Some(<< "h1", "h2", "h3", "h4" >>[i]), None, None)

ClientDecls ==
    {<< HostSession(1), HostSession(2) >>,
     << HostSession(1), HostSession(2), HostSession(3) >>}

\* A connect to a host that no Session declares.
OtherConnect == ConnectCall(Some("u9"), Some("h9"), Some(2222), << >>)

InitClient == InitOf(ClientDecls)

NextClient ==
    \/ Wrapper(0)
    \/ NewSSHClient
    \/ \E i \in Held :
          Len(clients[i].get_transport) = 0 /\ get_transport(i)
    \/ \E i \in Held :
          \E c \in DeclaredConnects(sessions[i]) \cup {OtherConnect} :
              Len(clients[i].connect) = 0 /\ connect(i, c)
    \/ \E i \in Held :
          /\ Len(clients[i].open_session) < Len(sessions[i].commands)
          /\ open_session(i)
    \/ \E id \in Opened : \E text \in DeclaredTexts(CommandOf(id)) :
          Len(ChannelOf(id).exec_command) = 0 /\ exec_command(id, text)
    \/ BodyReturns
    \/ BodyRaises
    \/ stop
    \/ stop_sanity_check

SpecClient == InitClient /\ [][NextClient]_vars

\* What the constructions of SSHClient have returned so far is the clients
\* of the Sessions in declared order, and nothing (0) from there on.
ClientsInOrder ==
    /\ Len(observed.SSHClient) = SSHClient.calls
    /\ \A k \in 1..Len(observed.SSHClient) :
          observed.SSHClient[k] = IF k <= Len(sessions) THEN k ELSE 0
    /\ \A k \in 1..Len(sessions) :
          /\ SSHClient.side_effect[k] = k
          /\ clients[k].side_effect = [j \in 1..Len(sessions[k].commands)
                                          |-> << k, j >>]
    /\ (last.op = "SSHClient" /\ SSHClient.calls > Len(sessions))
          => last.raised

\* The Sessions whose client was never used: no call was made on it, be it
\* that it was never constructed.
NeverUsed ==
    {i \in 1..Len(sessions) :
        /\ clients[i].get_transport = << >>
        /\ clients[i].connect = << >>
        /\ clients[i].open_session = << >>}

\* The first of a non-empty set of Sessions.
First(S) == CHOOSE i \in S : \A o \in S : i <= o

(* C13 as stated: the k-th construction of SSHClient returned the k-th      *)
(* Session's client, a construction after the last raised, and when the     *)
(* wrapper has ended after fewer constructions than Sessions, the           *)
(* verification that failed is that of the first Session whose client was   *)
(* never used.                                                              *)
C13_Original ==
    /\ ClientsInOrder
    /\ (pc = "done" /\ SSHClient.calls < Len(sessions)) =>
          /\ Len(verified) = First(NeverUsed)
          /\ LastVerified # "ok"

(* C13 as amended: the k-th construction of SSHClient returned the k-th     *)
(* Session's client, a construction after the last raised, and when the     *)
(* wrapper has ended after fewer constructions than Sessions, stop() has    *)
(* raised a verification failure: that of the first Session whose client    *)
(* was never used (its get_transport was not called) when every Session     *)
(* before it passes, and that of an earlier Session otherwise.              *)
C13_ClientsInOrder ==
    /\ ClientsInOrder
    /\ (pc = "done" /\ SSHClient.calls < Len(sessions)) =>
          /\ outcome = "AssertionError"
          /\ Len(verified) <= First(NeverUsed)
          /\ LastVerified # "ok"
          /\ Len(verified) = First(NeverUsed)
                => LastVerified = "get_transport"
          /\ (\A k \in 1..(First(NeverUsed) - 1) :
                 sanity_check(sessions[k], clients[k], channels[k]) = "ok")
                => Len(verified) = First(NeverUsed)

\* Three Sessions: the body constructed two clients, used both as declared
\* and ended; stop() passed two Sessions and failed the third.
C13_Witness ==
    /\ pc = "done"
    /\ Len(sessions) = 3
    /\ observed.SSHClient = << 1, 2 >>
    /\ verified = << "ok", "ok", "get_transport" >>
    /\ outcome = "AssertionError"

\* The Sessions whose sanity_check fails on the fakes as they are.
Failing ==
    {i \in 1..Len(sessions) :
        sanity_check(sessions[i], clients[i], channels[i]) # "ok"}

(* C17: stop() checks the Sessions in declared order and ends at the first  *)
(* that fails: when the wrapper has ended and Session j is the first whose  *)
(* sanity_check fails, exactly Sessions 1..j were checked, 1..j-1 passed,   *)
(* the error raised is the failure of j, and no later Session was checked;  *)
(* when none fails, all were checked and the wrapper ends as the body did.  *)
C17_FailFast ==
    /\ pc = "sanity" =>
          /\ Len(verified) < Len(sessions)
          /\ \A k \in 1..Len(verified) : verified[k] = "ok" /\ k \notin Failing
    /\ pc = "done" =>
          IF Failing = { }
          THEN /\ verified = [i \in 1..Len(sessions) |-> "ok"]
               /\ outcome = AfterStop
          ELSE LET j == First(Failing)
               IN  /\ Len(verified) = j
                   /\ \A k \in 1..(j - 1) : verified[k] = "ok"
                   /\ verified[j]
                         = sanity_check(sessions[j], clients[j], channels[j])
                   /\ outcome = "AssertionError"

\* Three Sessions: the first was used as declared, the second connected to
\* another host, the third used as declared again; stop() passed the first,
\* failed the second and never checked the third.
C17_Witness ==
    /\ pc = "done"
    /\ Len(sessions) = 3
    /\ Failing = {2}
    /\ verified = << "ok", "connect" >>
    /\ outcome = "AssertionError"

----------------------------------------------------------------------------
(* SpecBare: the harness is set up in each way there is: @mock_remote bare, *)
(* @mock_remote() with nothing, @mock_remote(...) with Sessions built from  *)
(* any form of arguments, and MockRemote(...) constructed directly with     *)
(* autostart.  The test body then polls and reads the channels.             *)

\* The undecorated test function, as the one argument of a bare @mock_remote.
TestFunction == [func |-> "test"]

\* isinstance(x, types.FunctionType)
IsFunction(x) == "func" \in DOMAIN x

\* bare = (len(sessions) == 1 and isinstance(sessions[0], FunctionType))
bare(given) == Len(given) = 1 /\ IsFunction(given[1])

\* mock_remote(f), the bare decorator: the function is popped off sessions,
\* which leaves the closed-over list empty, and f is decorated at once.
mock_remote_bare(f) ==
    /\ pc = "declaring"
    /\ declared = << >>
    /\ bare(<< f >>)
    /\ declared' = SubSeq(<< f >>, 1, Len(<< f >>) - 1)
    /\ last' = Returned("mock_remote", << >>, f, << >>)
    /\ pc' = "declared"
    /\ UNCHANGED <<sessions, patched, SSHClient, clients, channels, args,
                   observed, body, verified, outcome, sftp>>

\* MockRemote(cmd=..., out=..., err=..., in_=..., exit=..., commands=...,
\* sessions=...) used directly, with autostart: __init__ and start().  The
\* channels that start() returns are dropped; the code that follows, up to
\* the call of stop(), takes the place of the test body.
NewMockRemote(a) ==
    /\ pc = "declaring"
    /\ LET ss == MockRemote(a.cmd, a.out, a.err, a.in_, a.exit, a.commands,
                            a.sessions)
           st == start(ss)
       IN  /\ sessions' = ss
           /\ clients' = st.clients
           /\ channels' = st.channels
           /\ SSHClient' = st.SSHClient
           /\ observed' = NothingObserved(st.channels)
    /\ last' = Returned("MockRemote", << >>, a, << >>)
    /\ patched' = TRUE
    /\ pc' = "body"
    /\ UNCHANGED <<declared, args, body, verified, outcome, sftp>>

\* Session(...) with the given shorthand fields and commands list.
SessionArg(commands, cmd, out, in_, waits) ==
    [host |-> None, user |-> None, port |-> None, commands |-> commands,
     cmd |-> cmd, out |-> out, in_ |-> in_, err |-> None, exit |-> None,
     waits |-> waits]

\* Arguments of Session(...): nothing, an empty commands list, in_ alone,
\* and a shorthand Command with output and a wait.
BareSessionArgs ==
    {SessionArg(None, None, None, None, None),
     SessionArg(Some(<< >>), None, None, None, None),
     SessionArg(None, None, None, Some(<< "a" >>), None),
     SessionArg(None, Some("ls"), Some(<< "a" >>), None, Some(1))}

\* MockRemote(...) with the given arguments.
MockRemoteArg(cmd, out, in_, exit, commands, given) ==
    [cmd |-> cmd, out |-> out, err |-> None, in_ |-> in_, exit |-> exit,
     commands |-> commands, sessions |-> given]

\* Arguments of MockRemote(...), the sessions aside: nothing, a shorthand
\* command, in_ alone, zero and empty values, and a commands list, empty or
\* of two.
MockRemoteArgs ==
    {MockRemoteArg(None, None, None, None, None, None),
     MockRemoteArg(Some("ls"), None, None, Some(1), None, None),
     MockRemoteArg(None, None, Some(<< "a" >>), None, None, None),
     MockRemoteArg(None, Some(<< >>), None, Some(0), None, None),
     MockRemoteArg(None, None, None, None, Some(<< >>), None),
     MockRemoteArg(None, None, None, None,
                   Some(<< NthCommand(1), NthCommand(2) >>), None)}

InitBare == InitSession

NextBare ==
    \/ \E a \in BareSessionArgs : Len(declared) < MaxSessions /\ NewSession(a)
    \/ mock_remote
    \/ mock_remote_bare(TestFunction)
    \/ \E own \in OwnArgs : Wrapper(own)
    \/ \E a \in MockRemoteArgs : declared = << >> /\ NewMockRemote(a)
    \/ NewMockRemote(MockRemoteArg(None, None, None, None, None,
                                   Some(declared)))
    \/ \E id \in Channels :
          /\ ChannelOf(id).exit_status_ready <= CommandOf(id).waits + 1
          /\ exit_status_ready(id)
    \/ \E id \in Channels : recv(id, MaxCount)
    \/ \E id \in Channels : recv_stderr(id, MaxCount)
    \/ \E id \in Channels : recv_exit_status(id)
    \/ BodyReturns
    \/ BodyRaises
    \/ stop
    \/ stop_sanity_check

SpecBare == InitBare /\ [][NextBare]_vars

\* The harness was set up by the wrapper of a decorated test, which hands
\* the test at least one channel (a MockRemote used directly hands none), of
\* a decoration that was bare, empty or mock_remote(Session()).
DefaultDecoration ==
    /\ pc \in {"body", "finally", "sanity", "done"}
    /\ Len(args) > 0
    /\ declared \in {<< >>, << DefaultSession >>}

(* C14: once a harness is set up it holds at least one Session, every       *)
(* Session holds at least one Command and has one channel per Command; and  *)
(* after a bare @mock_remote, @mock_remote() or @mock_remote(Session()) it  *)
(* holds exactly one Session with exactly one Command, all defaults, the    *)
(* test gets exactly one channel after its own arguments, and that channel  *)
(* has empty stdout and stderr, exit code 0 and answers exit_status_ready   *)
(* with True from the first call.                                           *)
C14_BareDefault ==
    /\ pc \in {"body", "finally", "sanity", "done"} =>
          /\ Len(sessions) >= 1
          /\ Len(channels) = Len(sessions)
          /\ \A i \in 1..Len(sessions) :
                /\ Len(sessions[i].commands) >= 1
                /\ Len(channels[i]) = Len(sessions[i].commands)
    /\ DefaultDecoration =>
          /\ Len(sessions) = 1
          /\ sessions[1].commands = << DefaultCommand >>
          /\ sessions = << DefaultSession >>
          /\ Len(args) = OwnCount + 1
          /\ args[Len(args)] = << 1, 1 >>
          /\ Channels = {<< 1, 1 >>}
          /\ channels[1][1].stdout.buf = << >>
          /\ channels[1][1].stderr.buf = << >>
          /\ channels[1][1].recv_exit_status = 0
          /\ observed.channels[1][1].recv = << >>
          /\ observed.channels[1][1].recv_stderr = << >>
          /\ \A k \in 1..Len(observed.channels[1][1].exit_status_ready) :
                observed.channels[1][1].exit_status_ready[k]
          /\ (last.op = "recv_exit_status") => last.ret = 0

\* After a bare or empty decoration the test, a method, has polled its one
\* channel twice and read from it, and asks for the exit status.
C14_Witness ==
    /\ declared = << >>
    /\ pc = "body"
    /\ args = << << 0, 1 >>, << 1, 1 >> >>
    /\ observed.channels[1][1].exit_status_ready = << TRUE, TRUE >>
    /\ channels[1][1].stdout.pos = 0
    /\ last.op = "recv_exit_status"

----------------------------------------------------------------------------
(* The life of the substitution, over the runs of SpecClient.               *)

\* The substitution is installed exactly from start() to the first statement
\* of stop(), and no Session has been checked while it is.
InstalledWhileRunning ==
    /\ patched <=> pc \in {"body", "finally"}
    /\ patched => verified = << >> /\ outcome = "none"
    /\ outcome = "AssertionError" => ~patched /\ pc = "done"

\* The substitution changes only by start() installing it, before the test
\* body runs, and by stop() removing it, before the first sanity_check.
InstallThenUninstall ==
    patched' # patched =>
        \/ pc = "declared" /\ pc' = "body" /\ patched' /\ verified' = << >>
        \/ pc = "finally" /\ pc' = "sanity" /\ ~patched' /\ verified' = << >>

(* C16: stop() removes the SSHClient substitution before it checks any      *)
(* Session: the substitution goes from not installed to installed (start)   *)
(* to not installed (stop) and changes in no other way, it is not installed *)
(* once stop() has begun checking, whether stop() then returns or raises,   *)
(* and in no state has a verification failed with it still installed.       *)
C16_UninstallFirst ==
    /\ []InstalledWhileRunning
    /\ [][InstallThenUninstall]_vars

\* The body constructed a client under the substitution and returned; stop()
\* removed the substitution and then raised the first Session's failure.
C16_Witness ==
    /\ pc = "done"
    /\ body = "returned"
    /\ SSHClient.calls > 0
    /\ ~patched
    /\ Len(verified) = 1
    /\ verified[1] # "ok"
    /\ outcome = "AssertionError"

----------------------------------------------------------------------------
(* MockSFTP and the mock_sftp decorator.  A str is a sequence of characters *)
(* here, so that the path helpers can be computed.                          *)
(*   "sftp_declared"  the test is decorated with mock_sftp                  *)
(*   "sftp_body"      MockSFTP.start() has run; the test body is running    *)
(*   "sftp_direct"    a MockSFTP constructed directly is started            *)

\* fake_mode = 0o644
fake_mode == 420

\* fake_abspath(path): '/local/{0}'.format(path)
fake_abspath(path) == << "/", "l", "o", "c", "a", "l", "/" >> \o path

\* os.path.basename(path): what follows the last slash.
basename(path) ==
    LET slashes == {k \in 1..Len(path) : path[k] = "/"}
        from == IF slashes = { } THEN 0
                ELSE CHOOSE k \in slashes : \A o \in slashes : o <= k
    IN  SubSeq(path, from + 1, Len(path))

\* MockSFTP.start: both patchers are started; the mocks are new.
MockSFTP_start(expose_os) ==
    [NoSFTP EXCEPT !.expose_os = expose_os,
                   !.os_patcher = TRUE,
                   !.client_patcher = TRUE]

\* mock_sftp(expose_os=...) and the decoration of the test.
mock_sftp(expose_os) ==
    /\ pc = "declaring"
    /\ pc' = "sftp_declared"
    /\ sftp' = [sftp EXCEPT !.expose_os = expose_os]
    /\ UNCHANGED <<declared, sessions, patched, SSHClient, clients, channels,
                   args, last, observed, body, verified, outcome>>

\* wrapper, up to the call of the test: MockSFTP(autostart=False), start(),
\* Transfer(Connection('host')) and passed_args.
sftp_wrapper ==
    /\ pc = "sftp_declared"
    /\ sftp' = MockSFTP_start(sftp.expose_os)
    /\ patched' = TRUE
    /\ args' = << << "self" >>, << "sftp" >>, << "transfer" >> >>
               \o IF sftp.expose_os THEN << << "mock_os" >> >> ELSE << >>
    /\ pc' = "sftp_body"
    /\ UNCHANGED <<declared, sessions, SSHClient, clients, channels, last,
                   observed, body, verified, outcome>>

\* MockSFTP() used directly, with autostart.
NewMockSFTP ==
    /\ pc = "declaring"
    /\ sftp' = MockSFTP_start(FALSE)
    /\ patched' = TRUE
    /\ pc' = "sftp_direct"
    /\ UNCHANGED <<declared, sessions, SSHClient, clients, channels, args,
                   last, observed, body, verified, outcome>>

\* What a call on the mocks of MockSFTP leaves alone.
SFTPFrame ==
    /\ pc \in {"sftp_body", "sftp_direct"}
    /\ UNCHANGED <<pc, declared, sessions, patched, SSHClient, clients,
                   channels, args, observed, body, verified, outcome>>

\* sftp.getcwd()
sftp_getcwd ==
    /\ SFTPFrame
    /\ sftp.getcwd < MaxCalls
    /\ sftp' = [sftp EXCEPT !.getcwd = @ + 1]
    /\ last' = Returned("getcwd", << >>, << >>, "/remote")

\* sftp.stat(path).st_mode and mock_os.stat(path).st_mode
sftp_stat ==
    /\ SFTPFrame
    /\ sftp.stat < MaxCalls
    /\ sftp' = [sftp EXCEPT !.stat = @ + 1]
    /\ last' = Returned("stat", << >>, << >>, fake_mode)

\* mock_os.path.abspath(path)
os_path_abspath(path) ==
    /\ SFTPFrame
    /\ Len(sftp.abspath) < MaxCalls
    /\ sftp' = [sftp EXCEPT !.abspath = Append(@, path)]
    /\ last' = Returned("abspath", << >>, path, fake_abspath(path))

\* mock_os.path.basename(path)
os_path_basename(path) ==
    /\ SFTPFrame
    /\ Len(sftp.basename) < MaxCalls
    /\ sftp' = [sftp EXCEPT !.basename = Append(@, path)]
    /\ last' = Returned("basename", << >>, path, basename(path))

\* return f(*passed_args): f returns, and the wrapper with it.
sftp_returns ==
    /\ pc = "sftp_body"
    /\ body' = "returned"
    /\ outcome' = "returned"
    /\ pc' = "done"
    /\ UNCHANGED <<declared, sessions, patched, SSHClient, clients, channels,
                   args, last, observed, verified, sftp>>

\* return f(*passed_args): f raises, and the error leaves the wrapper.
sftp_raises ==
    /\ pc = "sftp_body"
    /\ body' = "raised"
    /\ outcome' = "body_error"
    /\ pc' = "done"
    /\ UNCHANGED <<declared, sessions, patched, SSHClient, clients, channels,
                   args, last, observed, verified, sftp>>

\* MockSFTP.stop, called by the code that constructed the MockSFTP.
MockSFTP_stop ==
    /\ pc = "sftp_direct"
    /\ sftp' = [sftp EXCEPT !.os_patcher = FALSE,
                            !.client_patcher = FALSE,
                            !.stop = @ + 1]
    /\ patched' = FALSE
    /\ pc' = "done"
    /\ UNCHANGED <<declared, sessions, SSHClient, clients, channels, args,
                   last, observed, body, verified, outcome>>

\* Local and remote paths: a file name, and one in a directory.
Paths == {<< "f" >>, << "d", "/", "f" >>}

InitSFTP == InitSession

NextSFTP ==
    \/ \E expose_os \in BOOLEAN : mock_sftp(expose_os)
    \/ sftp_wrapper
    \/ NewMockSFTP
    \/ sftp_getcwd
    \/ sftp_stat
    \/ \E path \in Paths : os_path_abspath(path)
    \/ \E path \in Paths : os_path_basename(path)
    \/ sftp_returns
    \/ sftp_raises
    \/ MockSFTP_stop

SpecSFTP == InitSFTP /\ [][NextSFTP]_vars

(* C18: when a test wrapped by mock_sftp has ended, by returning or by      *)
(* raising, MockSFTP.stop has been called and neither of the substitutions  *)
(* of MockSFTP.start (fabric.transfer.os and SSHClient) is installed.       *)
C18_SftpTeardown ==
    (pc = "done" /\ body \in {"returned", "raised"}) =>
        /\ sftp.stop = 1
        /\ ~sftp.os_patcher
        /\ ~sftp.client_patcher
        /\ ~patched

----------------------------------------------------------------------------
(* SpecIsolate: two channels, of one Session of two Commands or of two      *)
(* Sessions of one Command; the test body reads, writes, polls and runs     *)
(* commands on either of the injected channels in any interleaving.         *)

\* The k-th of two Commands with output, error output and one wait each.
IsolateCommand(k) == Command(None, OutBytes(1), ErrBytes(1), None, k, 1)

IsolateDecls ==
    {<< SessionOf(<< IsolateCommand(1), IsolateCommand(2) >>) >>,
     << SessionOf(<< IsolateCommand(1) >>),
        SessionOf(<< IsolateCommand(2) >>) >>}

InitIsolate == InitOf(IsolateDecls)

NextIsolate ==
    \/ Wrapper(0)
    \/ \E id \in Channels : recv(id, 1)
    \/ \E id \in Channels : recv_stderr(id, 1)
    \/ \E id \in Channels :
          Len(getvalue(ChannelOf(id)._stdin)) = 0 /\ sendall(id, << "a" >>)
    \/ \E id \in Channels :
          /\ ChannelOf(id).exit_status_ready <= CommandOf(id).waits
          /\ exit_status_ready(id)
    \/ \E id \in Channels : recv_exit_status(id)
    \/ \E id \in Channels : \E text \in AnyText :
          Len(ChannelOf(id).exec_command) = 0 /\ exec_command(id, text)
    \/ BodyReturns
    \/ BodyRaises
    \/ stop
    \/ stop_sanity_check

SpecIsolate == InitIsolate /\ [][NextIsolate]_vars

\* The run state of the channel id among chans: the cursors of stdout and
\* stderr, the bytes written to stdin and the False polls yet to come.
RunState(chans, id) ==
    [stdout |-> chans[id[1]][id[2]].stdout.pos,
     stderr |-> chans[id[1]][id[2]].stderr.pos,
     stdin |-> getvalue(chans[id[1]][id[2]]._stdin),
     readies |-> chans[id[1]][id[2]].readies]

\* A step leaves the run state of every channel but the one it calls as it
\* was; a recv leaves all but the stdout cursor of its own channel, a
\* recv_stderr all but the stderr cursor.
OthersUntouched ==
    \A id \in Channels :
        /\ (last'.on # id \/ pc' # "body")
              => RunState(channels', id) = RunState(channels, id)
        /\ (last'.on = id /\ last'.op = "recv")
              => RunState(channels', id)
                    = [RunState(channels, id) EXCEPT
                          !.stdout = RunState(channels', id).stdout]
        /\ (last'.on = id /\ last'.op = "recv_stderr")
              => RunState(channels', id)
                    = [RunState(channels, id) EXCEPT
                          !.stderr = RunState(channels', id).stderr]

(* C19: every operation on a channel (recv, recv_stderr, sendall,           *)
(* exit_status_ready, recv_exit_status, exec_command) leaves the stdout     *)
(* cursor, the stderr cursor, the stdin buffer and the remaining not-ready  *)
(* polls of every other channel unchanged, in the same Session and in       *)
(* another; a recv leaves the stderr cursor of its own channel unchanged    *)
(* and a recv_stderr the stdout cursor.                                     *)
C19_ChannelsIsolated == [][OthersUntouched]_vars

\* Two Sessions: the second channel was polled once, written to and read on
\* stderr; then the first is read on stdout.  Each has only its own changes.
C19_Witness ==
    /\ Len(sessions) = 2
    /\ last.op = "recv" /\ last.on = << 1, 1 >> /\ last.ret = << "a" >>
    /\ RunState(channels, << 1, 1 >>)
          = [stdout |-> 1, stderr |-> 0, stdin |-> << >>, readies |-> 1]
    /\ RunState(channels, << 2, 1 >>)
          = [stdout |-> 0, stderr |-> 1, stdin |-> << "a" >>, readies |-> 0]

----------------------------------------------------------------------------
(* SpecAgain: a test decorated with mock_remote(explicit Sessions) is       *)
(* called, and called again once the wrapper has ended, any number of       *)
(* times.  In each invocation the body does what the Sessions declare or a  *)
(* part of it, and may return or raise at any point.                        *)

\* The decorated test is called again after an invocation has ended.  What
\* was local to that invocation is gone: the MockRemote, the substituted
\* class, the arguments and the result.  The closed-over Session objects
\* remain, and with them the client and channels attributes that
\* generate_mocks set on them.
called_again ==
    /\ pc = "done"
    /\ outcome \in {"returned", "body_error", "AssertionError"}
    /\ pc' = "declared"
    /\ sessions' = << >>
    /\ SSHClient' = [calls |-> 0, side_effect |-> << >>, next |-> 1]
    /\ args' = << >>
    /\ observed' = NothingObserved(channels)
    /\ body' = "none"
    /\ verified' = << >>
    /\ outcome' = "none"
    /\ last' = [op |-> "wrapper", on |-> << >>, arg |-> << >>,
                ret |-> outcome, raised |-> outcome # "returned"]
    /\ UNCHANGED <<declared, patched, clients, channels, sftp>>

\* Session(cmd=..., out=..., in_=..., waits=...) with every kind of run state
\* to leave behind, and a second Session with none.
AgainDecls ==
    {<< Session(None, None, None, None, Some("ls"), Some(<< "a" >>),
                Some(<< "b" >>), None, None, Some(1)) >>,
     << ShorthandSession, DefaultSession >>}

InitAgain == InitOf(AgainDecls)

NextAgain ==
    \/ Wrapper(0)
    \/ SSHClient.calls < Len(sessions) /\ NewSSHClient
    \/ \E i \in Held :
          Len(clients[i].get_transport) = 0 /\ get_transport(i)
    \/ \E i \in Held : \E c \in DeclaredConnects(sessions[i]) :
          Len(clients[i].connect) = 0 /\ connect(i, c)
    \/ \E i \in Held :
          /\ Len(clients[i].open_session) < Len(sessions[i].commands)
          /\ open_session(i)
    \/ \E id \in Opened : \E text \in DeclaredTexts(CommandOf(id)) :
          Len(ChannelOf(id).exec_command) = 0 /\ exec_command(id, text)
    \/ \E id \in Opened :
          /\ CommandOf(id).in_ # None
          /\ Len(getvalue(ChannelOf(id)._stdin)) = 0
          /\ sendall(id, CommandOf(id).in_[1])
    \/ \E id \in Opened :
          /\ ChannelOf(id).exit_status_ready <= CommandOf(id).waits
          /\ exit_status_ready(id)
    \/ \E id \in Opened : recv(id, MaxCount)
    \/ BodyReturns
    \/ BodyRaises
    \/ stop
    \/ stop_sanity_check
    \/ called_again

SpecAgain == InitAgain /\ [][NextAgain]_vars

\* The fakes are as generate_mocks builds them from the Commands: nothing
\* read, written, polled or called.
Regenerated ==
    /\ SSHClient.calls = 0 /\ SSHClient.next = 1
    /\ Len(clients) = Len(sessions)
    /\ \A i \in 1..Len(sessions) :
          /\ clients[i].get_transport = << >>
          /\ clients[i].connect = << >>
          /\ clients[i].open_session = << >>
          /\ clients[i].next = 1
    /\ \A id \in Channels :
          /\ ChannelOf(id).stdout = [buf |-> CommandOf(id).out, pos |-> 0]
          /\ ChannelOf(id).stderr = [buf |-> CommandOf(id).err, pos |-> 0]
          /\ getvalue(ChannelOf(id)._stdin) = << >>
          /\ ChannelOf(id).readies = CommandOf(id).waits
          /\ ChannelOf(id).exit_status_ready = 0
          /\ ChannelOf(id).exec_command = << >>

(* C20: when a test decorated with explicit Sessions is called again, the   *)
(* body starts with regenerated fakes: cursors at 0, empty stdin, the full  *)
(* waits count of False polls, empty call records; and in every invocation  *)
(* the fakes hold what this invocation has done and no more, so a Session   *)
(* passes verification only if its client was constructed and its channels  *)
(* opened in this invocation, whatever an earlier one did.                  *)
C20_FreshFakes ==
    /\ (pc = "body" /\ last.op \in {"none", "wrapper"}) => Regenerated
    /\ pc \in {"body", "finally", "sanity", "done"} =>
          /\ Len(observed.SSHClient) = SSHClient.calls
          /\ \A i \in 1..Len(sessions) :
                Len(observed.open_session[i]) = Len(clients[i].open_session)
          /\ \A id \in Channels :
                /\ ObservedOf(id).recv
                      = SubSeq(CommandOf(id).out, 1, ChannelOf(id).stdout.pos)
                /\ ObservedOf(id).sendall = getvalue(ChannelOf(id)._stdin)
                /\ \A k \in 1..Len(ObservedOf(id).exit_status_ready) :
                      ObservedOf(id).exit_status_ready[k]
                         = (k > CommandOf(id).waits)
          /\ \A i \in 1..Len(verified) :
                verified[i] = "ok" =>
                    /\ i <= Len(observed.SSHClient)
                    /\ Len(observed.open_session[i])
                          = Len(sessions[i].commands)

\* The first invocation did all that is declared and returned; the second
\* has begun: its channel is unread, unwritten and has its wait to come.
C20_Witness ==
    /\ pc = "body"
    /\ last.op = "wrapper"
    /\ last.ret = "returned"
    /\ Len(sessions) = 1
    /\ CommandOf(<< 1, 1 >>).waits = 1
    /\ Regenerated

----------------------------------------------------------------------------
(* The result of the wrapper, over the runs of SpecClient.                  *)

(* C21: when the wrapper has ended, its result is decided by how the body   *)
(* ended and whether a Session fails verification: body returned and all    *)
(* pass, the wrapper returns; body returned and one fails, the wrapper      *)
(* raises the verification failure; body raised and all pass, the body's    *)
(* error leaves the wrapper; body raised and one fails, the verification    *)
(* failure leaves the wrapper in place of the body's error.  In each case   *)
(* the substitution is removed.                                             *)
C21_WrapperOutcome ==
    pc = "done" =>
        /\ body \in {"returned", "raised"}
        /\ (body = "returned" /\ Failing = { }) => outcome = "returned"
        /\ (body = "returned" /\ Failing # { }) => outcome = "AssertionError"
        /\ (body = "raised" /\ Failing = { }) => outcome = "body_error"
        /\ (body = "raised" /\ Failing # { }) => outcome = "AssertionError"
        /\ ~patched

\* The body used the first of two clients as declared and then raised; the
\* second Session fails verification, and that failure leaves the wrapper.
C21_Witness ==
    /\ pc = "done"
    /\ body = "raised"
    /\ Len(sessions) = 2
    /\ Failing = {2}
    /\ verified = << "ok", "get_transport" >>
    /\ outcome = "AssertionError"
    /\ ~patched

====
